---- MODULE Spec2Model ----
(***************************************************************************)
(* ProjectCinema backend: the ticket ledger behind POST /reserve           *)
(* (app/api/routes/reserve.py), the screening administration               *)
(* (app/api/routes/screenings.py) and the MQTT bridge                      *)
(* (app/core/mqtt_client.py).                                              *)
(*                                                                         *)
(* The persistent store is PostgreSQL behind one SQLAlchemy AsyncSession   *)
(* per request (app/db/session.py), at the default READ COMMITTED          *)
(* isolation: a SELECT sees committed rows only, the ORM flushes           *)
(* `screening.bookings_count += 1` as an UPDATE that SETs the value        *)
(* computed in Python from the row the request loaded.  The variables      *)
(* `showings` and `bookings` are the committed rows; `screening` is the    *)
(* ORM object each request holds in its own session.                       *)
(***************************************************************************)
EXTENDS Integers, Sequences, FiniteSets, TLC

\* ---------------------------------------------------------------- bounds
NumRequests == 2
MaxCapacity == 2
MaxTime     == 1
MaxInbound  == 2
MaxSeats    == 2
MaxCalls    == 3
NumThreads  == 2

\* ------------------------------------------------------------- universes
ReqIds     == 1..NumRequests
Users      == {"u1", "u2"}
\* the authenticated users who call POST /reserve
Callers    == {"u1"}
Keys       == ReqIds
ShowingIds == {"s1", "s2"}
ShowingOrder == [s \in ShowingIds |-> IF s = "s1" THEN 1 ELSE 2]
Rooms      == {"r1", "r2"}
SeatIds    == {"A1", "A2"}
Times      == 0..MaxTime
\* the managers plan screenings of one time unit
SlotLength == 1

None      == "None"
\* a time that is not given: a nullable expires_at that is NULL, an
\* optional start_time or end_time left out of a request
NoTime    == -1
\* an absent row, an unused request slot, a session with no object loaded
NoShowing == [room_id |-> None, start_time |-> 0, end_time |-> 0,
              status |-> None, bookings_count |-> 0]
NoRequest == [user |-> None, screening_id |-> None, key |-> None]
NoObject  == [bookings_count |-> 0, capacity |-> 0]
\* a row that was deleted: its uuid is never handed out again
Gone      == [NoShowing EXCEPT !.status = "deleted"]

\* mqtt_client.py:15, `_mqtt_client = None`, and the client once created:
\* `loop` is its network thread (line 49), `link` where its connection
\* stands ("connecting": CONNECT sent, "up", "lost": dropped and a reconnect
\* is owed, "dialing": a reconnect is under way, "closed": disconnected on
\* the client's own request)
NoClient == [loop |-> None, link |-> None]

Client(loop, link) == [loop |-> loop, link |-> link]

\* the two filters on_connect subscribes to, lines 60-63
Subscribed == {<<"booking", "request">>, <<"seats", "status", "#">>}

\* Room.capacity: rooms are created by the seed / the cinema administration
\* and never written by the routes modelled here.
capacity == [r \in Rooms |-> IF r = "r1" THEN 1 ELSE MaxCapacity]

VARIABLES
    showings,    \* committed rows of table `showings`, by id
    bookings,    \* committed rows of table `bookings`
    seat_reservations, \* committed rows of table `seat_reservations`
    pc,          \* where each POST /reserve request stands
    req,         \* the inputs of each POST /reserve request
    screening,   \* the Showing object loaded in each request's session
    connected,   \* whether the paho client has a live broker connection
    inbox,       \* booking/request payloads delivered so far, in order
    outbox,      \* messages accepted by the broker, in publish order
    mqtt_client, \* the module's `_mqtt_client`: the paho client, if created
    subscriptions, \* topic filters the client holds in its broker session
    published,   \* the calls of publish_message from outside the callbacks
    received,    \* the messages handed to on_message so far, in order
    seat_map,    \* the last response of GET /showings/{id}/seats
    callers,     \* where each thread stands in get_mqtt_client
    current,     \* which client object `_mqtt_client` refers to
    deletion     \* the session of each DELETE /screenings/{id} under way

\* the state outside the ledger and the bridge
side == <<seat_map, callers, current, deletion>>

vars == <<showings, bookings, seat_reservations, pc, req, screening,
          connected, inbox, outbox, mqtt_client, subscriptions, published,
          received, side>>

\* ----------------------------------------------------------- data model
\* The rows carry the attributes the routes read and write:
\* Showing.bookings_count (screenings.py:187, reserve.py:47,66) and
\* Booking.ticket_count (reserve.py:60), next to the declared columns.
Showing(room, start, end, st, n) ==
    [room_id |-> room, start_time |-> start, end_time |-> end,
     status |-> st, bookings_count |-> n]

Booking(id, user, sid, st, n) ==
    [id |-> id, user_id |-> user, showing_id |-> sid,
     status |-> st, ticket_count |-> n]

\* a row of table `seat_reservations` (seat_reservation.py:14-29), with the
\* seat it points to given by its row and number
SeatReservation(bid, sid, row, number, st, expires_at) ==
    [booking_id |-> bid, showing_id |-> sid, row |-> row, number |-> number,
     status |-> st, expires_at |-> expires_at]

Exists(sid) == showings[sid] \notin {NoShowing, Gone}

BookingsOf(sid) == {b \in bookings : b.showing_id = sid}

RECURSIVE SumTickets(_)
SumTickets(bs) ==
    IF bs = {} THEN 0
    ELSE LET b == CHOOSE x \in bs : TRUE
         IN  b.ticket_count + SumTickets(bs \ {b})

\* tickets held by the confirmed bookings of a showing
ConfirmedTickets(sid) ==
    SumTickets({b \in BookingsOf(sid) : b.status = "confirmed"})

\* no seat map served yet, every thread before its call of get_mqtt_client,
\* no DELETE under way
NoMap == [showing_id |-> None, at |-> 0, status_code |-> 0, seats |-> << >>]

NoClientId == 0

Threads == 1..NumThreads

\* a thread in get_mqtt_client / init_mqtt_client: the line it is `at`, the
\* function it entered `via`, the `client` local of init_mqtt_client, the
\* client it `got` back, how many `calls` it began and how many clients it
\* has `made` (connected and started)
Caller(at, via, client, got, calls, made) ==
    [at |-> at, via |-> via, client |-> client, got |-> got,
     calls |-> calls, made |-> made]

NoDeletion == [loaded |-> FALSE, bookings |-> {}]

SideInit ==
    /\ seat_map = NoMap
    /\ callers = [t \in Threads |->
                     Caller("idle", None, NoClientId, NoClientId, 0, 0)]
    /\ current = NoClientId
    /\ deletion = [s \in ShowingIds |-> NoDeletion]

Init ==
    /\ showings = [s \in ShowingIds |-> NoShowing]
    /\ bookings = {}
    /\ seat_reservations = {}
    /\ pc = [r \in ReqIds |-> "idle"]
    /\ req = [r \in ReqIds |-> NoRequest]
    /\ screening = [r \in ReqIds |-> NoObject]
    /\ connected = TRUE
    /\ inbox = << >>
    /\ outbox = << >>
    /\ mqtt_client = Client("running", "up")
    /\ subscriptions = Subscribed
    /\ published = << >>
    /\ received = << >>
    /\ SideInit

\* ------------------------------------------------- screenings.py (admin)
\* the time-conflict filter of create_screening, per stored showing
TimeConflict(sh, room, start, end) ==
    /\ sh.room_id = room
    /\ sh.status = "scheduled"
    /\ \/ (sh.start_time <= start /\ sh.end_time > start)
       \/ (sh.start_time < end /\ sh.end_time >= end)
       \/ (sh.start_time >= start /\ sh.end_time <= end)

\* the ids in use are handed out in order: a new row gets the first id
\* that no row has, as a fresh uuid4 is an id that no row has
FreshId(sid) ==
    /\ showings[sid] = NoShowing
    /\ \A o \in ShowingIds :
           ShowingOrder[o] < ShowingOrder[sid] => showings[o] # NoShowing

\* POST /screenings: 400 on a time conflict, otherwise a new row with
\* bookings_count = 0 under a fresh uuid4
create_screening(sid, room, start, end) ==
    /\ FreshId(sid)
    /\ ~\E o \in ShowingIds :
           Exists(o) /\ TimeConflict(showings[o], room, start, end)
    /\ showings' = [showings EXCEPT
                       ![sid] = Showing(room, start, end, "scheduled", 0)]
    /\ UNCHANGED <<bookings, seat_reservations, side, pc, req, screening,
                   connected, inbox, outbox,
                   mqtt_client, subscriptions, published, received>>

\* POST /showings (showings.py:166-244): the same filter, 400 on a
\* conflict, otherwise a new row with the status of the request
create_showing(sid, room, start, end, showing_status) ==
    /\ FreshId(sid)
    /\ ~\E o \in ShowingIds :
           Exists(o) /\ TimeConflict(showings[o], room, start, end)
    /\ showings' = [showings EXCEPT
                       ![sid] = Showing(room, start, end, showing_status, 0)]
    /\ UNCHANGED <<bookings, seat_reservations, side, pc, req, screening,
                   connected, inbox, outbox,
                   mqtt_client, subscriptions, published, received>>

\* lines 237-258: the fields of the request that are not None are set on
\* the loaded row; the others keep their value
Updated(sh, room_id, start_time, end_time, status) ==
    [sh EXCEPT
        !.room_id    = IF room_id # None THEN room_id ELSE @,
        !.start_time = IF start_time # NoTime THEN start_time ELSE @,
        !.end_time   = IF end_time # NoTime THEN end_time ELSE @,
        !.status     = IF status # None THEN status ELSE @]

\* lines 261-292: the conflict test runs only if the room or a time was
\* given, against the other scheduled showings of the room
UpdateConflict(id, new, room_id, start_time, end_time) ==
    /\ room_id # None \/ start_time # NoTime \/ end_time # NoTime
    /\ \E o \in ShowingIds \ {id} :
           /\ Exists(o)
           /\ TimeConflict(showings[o], new.room_id, new.start_time,
                           new.end_time)

update_screening_ResetsCount(id, room_id, start_time, end_time, status) ==
    /\ Exists(id)
    /\ LET new == Updated(showings[id], room_id, start_time, end_time,
                          status)
       IN  /\ ~UpdateConflict(id, new, room_id, start_time, end_time)
           /\ showings' = [showings EXCEPT
                              ![id] = [new EXCEPT !.bookings_count = 0]]
    /\ UNCHANGED <<bookings, seat_reservations, side, pc, req, screening,
                   connected, inbox, outbox,
                   mqtt_client, subscriptions, published, received>>

\* PUT /screenings/{id}, lines 205-312: 404 for a missing row, 400 on a
\* conflict (the session is closed without a commit), otherwise the
\* changed columns are written; bookings_count is not among them
update_screening(id, room_id, start_time, end_time, status) ==
    /\ Exists(id)
    /\ LET new == Updated(showings[id], room_id, start_time, end_time,
                          status)
       IN  /\ ~UpdateConflict(id, new, room_id, start_time, end_time)
           /\ showings' = [showings EXCEPT ![id] = new]
    /\ UNCHANGED <<bookings, seat_reservations, side, pc, req, screening,
                   connected, inbox, outbox,
                   mqtt_client, subscriptions, published, received>>

\* a DELETE session that has loaded the row and its bookings
Deletion(ids) == [loaded |-> TRUE, bookings |-> ids]

\* DELETE /screenings/{id}, lines 315-341: the row is loaded and
\* `await db.delete(screening)` loads the bookings and seat reservations
\* the delete cascades to (showing.py:44-49)
delete_screening_load(id) ==
    /\ Exists(id)
    /\ ~deletion[id].loaded
    /\ deletion' = [deletion EXCEPT
                       ![id] = Deletion({b.id : b \in BookingsOf(id)})]
    /\ UNCHANGED <<showings, bookings, seat_reservations, pc, req,
                   screening, connected, inbox, outbox, mqtt_client,
                   subscriptions, published, received, seat_map, callers,
                   current>>

delete_screening_commit_NoCascade(id) ==
    /\ deletion[id].loaded
    /\ deletion' = [deletion EXCEPT ![id] = NoDeletion]
    /\ showings' = [showings EXCEPT ![id] = Gone]
    /\ UNCHANGED <<bookings, seat_reservations>>
    /\ UNCHANGED <<pc, req, screening, connected, inbox, outbox,
                   mqtt_client, subscriptions, published, received,
                   seat_map, callers, current>>

\* line 342, the commit: the loaded children and the row are deleted.  A
\* booking committed since the load still points to the row, the foreign
\* key of booking.py:15 refuses the DELETE and the transaction is rolled
\* back.
delete_screening_commit(id) ==
    /\ deletion[id].loaded
    /\ deletion' = [deletion EXCEPT ![id] = NoDeletion]
    /\ IF {b.id : b \in BookingsOf(id)} \subseteq deletion[id].bookings
       THEN /\ showings' = [showings EXCEPT ![id] = Gone]
            /\ bookings' = bookings \ BookingsOf(id)
            /\ seat_reservations' =
                   {rs \in seat_reservations : rs.showing_id # id}
       ELSE UNCHANGED <<showings, bookings, seat_reservations>>
    /\ UNCHANGED <<pc, req, screening, connected, inbox, outbox,
                   mqtt_client, subscriptions, published, received,
                   seat_map, callers, current>>

\* ------------------------------------------------------------ reserve.py
\* what the broker accepted: topic as its list of levels, payload as a
\* record, src the request or inbox message that caused the publish
Message(topic, payload, src) ==
    [topic |-> topic, payload |-> payload, src |-> src]

\* A client draws a new idempotency key for a new request and sends the
\* key again, with the same user and screening, when it submits the
\* request a second time.
IsSubmission(r, user, sid, key) ==
    \/ key = r
    \/ \E q \in 1..(r - 1) :
           req[q] = [user |-> user, screening_id |-> sid, key |-> key]

\* ReserveLoad without the capacity check of lines 46-51
ReserveLoad_NoCapacityCheck(r, user, sid, key) ==
    /\ pc[r] = "idle"
    /\ \A q \in 1..(r - 1) : pc[q] # "idle"
    /\ IsSubmission(r, user, sid, key)
    /\ req' = [req EXCEPT ![r] =
                  [user |-> user, screening_id |-> sid, key |-> key]]
    /\ IF ~Exists(sid)
       THEN /\ pc' = [pc EXCEPT ![r] = "rejected_404"]
            /\ UNCHANGED screening
       ELSE /\ pc' = [pc EXCEPT ![r] = "loaded"]
            /\ screening' = [screening EXCEPT ![r] =
                   [bookings_count |-> showings[sid].bookings_count,
                    capacity |-> capacity[showings[sid].room_id]]]
    /\ UNCHANGED <<showings, bookings, seat_reservations, side,
                   connected, inbox, outbox,
                   mqtt_client, subscriptions, published, received>>

\* ReserveLoad with the booking added and committed ahead of the capacity
\* check, so that the 400 leaves a booking behind
ReserveLoad_WritesBeforeCheck(r, user, sid, key) ==
    /\ pc[r] = "idle"
    /\ \A q \in 1..(r - 1) : pc[q] # "idle"
    /\ IsSubmission(r, user, sid, key)
    /\ req' = [req EXCEPT ![r] =
                  [user |-> user, screening_id |-> sid, key |-> key]]
    /\ IF ~Exists(sid)
       THEN /\ pc' = [pc EXCEPT ![r] = "rejected_404"]
            /\ UNCHANGED <<screening, bookings>>
       ELSE LET row == showings[sid]
                cap == capacity[row.room_id]
            IN  IF row.bookings_count >= cap
                THEN /\ pc' = [pc EXCEPT ![r] = "rejected_400"]
                     /\ bookings' = bookings \cup
                            {Booking(r, user, sid, "confirmed", 1)}
                     /\ UNCHANGED screening
                ELSE /\ pc' = [pc EXCEPT ![r] = "loaded"]
                     /\ screening' = [screening EXCEPT ![r] =
                            [bookings_count |-> row.bookings_count,
                             capacity |-> cap]]
                     /\ UNCHANGED bookings
    /\ UNCHANGED <<showings, seat_reservations, side, connected, inbox, outbox,
                   mqtt_client, subscriptions, published, received>>

\* lines 33-51: SELECT the showing with its room, 404 when absent, 400 when
\* the loaded counter has reached the room's capacity.  Nothing is added
\* to the session before either raise.  The idempotency key of the request
\* is not a parameter of the route: it is carried and never read.
\* Requests are numbered in the order in which they reach the route.
ReserveLoad(r, user, sid, key) ==
    /\ pc[r] = "idle"
    /\ \A q \in 1..(r - 1) : pc[q] # "idle"
    /\ IsSubmission(r, user, sid, key)
    /\ req' = [req EXCEPT ![r] =
                  [user |-> user, screening_id |-> sid, key |-> key]]
    /\ IF ~Exists(sid)
       THEN /\ pc' = [pc EXCEPT ![r] = "rejected_404"]
            /\ UNCHANGED screening
       ELSE LET row == showings[sid]
                cap == capacity[row.room_id]
            IN  IF row.bookings_count >= cap
                THEN /\ pc' = [pc EXCEPT ![r] = "rejected_400"]
                     /\ UNCHANGED screening
                ELSE /\ pc' = [pc EXCEPT ![r] = "loaded"]
                     /\ screening' = [screening EXCEPT ![r] =
                            [bookings_count |-> row.bookings_count,
                             capacity |-> cap]]
    /\ UNCHANGED <<showings, bookings, seat_reservations, side,
                   connected, inbox, outbox,
                   mqtt_client, subscriptions, published, received>>

ReserveCommit_Pending(r) ==
    /\ pc[r] = "loaded"
    /\ LET sid == req[r].screening_id
           n   == screening[r].bookings_count + 1
       IN  IF ~Exists(sid)
           THEN /\ pc' = [pc EXCEPT ![r] = "failed_500"]
                /\ UNCHANGED <<showings, bookings, screening>>
           ELSE /\ bookings' = bookings \cup
                       {Booking(r, req[r].user, sid, "pending", 1)}
                /\ showings' = [showings EXCEPT ![sid].bookings_count = n]
                /\ screening' = [screening EXCEPT ![r].bookings_count = n]
                /\ pc' = [pc EXCEPT ![r] = "committed"]
    /\ UNCHANGED <<seat_reservations, side, req, connected, inbox, outbox,
                   mqtt_client, subscriptions, published, received>>

\* lines 53-68: INSERT the confirmed one-ticket booking, UPDATE the row
\* with the counter computed from the loaded object, COMMIT.  A row that
\* has disappeared meanwhile fails the flush and nothing is committed.
ReserveCommit(r) ==
    /\ pc[r] = "loaded"
    /\ LET sid == req[r].screening_id
           n   == screening[r].bookings_count + 1
       IN  IF ~Exists(sid)
           THEN /\ pc' = [pc EXCEPT ![r] = "failed_500"]
                /\ UNCHANGED <<showings, bookings, screening>>
           ELSE /\ bookings' = bookings \cup
                       {Booking(r, req[r].user, sid, "confirmed", 1)}
                /\ showings' = [showings EXCEPT ![sid].bookings_count = n]
                /\ screening' = [screening EXCEPT ![r].bookings_count = n]
                /\ pc' = [pc EXCEPT ![r] = "committed"]
    /\ UNCHANGED <<seat_reservations, side, req, connected, inbox, outbox,
                   mqtt_client, subscriptions, published, received>>

\* publish_screening_update is imported from app.core.mqtt_client, which
\* does not define it: a best-effort publish that is accepted by the broker
\* ("ok"), is refused and reports failure ("fail"), or raises ("raise").
PublishOutcomes == {"ok", "fail", "raise"}

\* ReservePublish undoing the reservation when the publish did not go
\* through
ReservePublish_Rollback(r, outcome) ==
    /\ pc[r] = "committed"
    /\ outcome \in PublishOutcomes
    /\ LET sid == req[r].screening_id
           remaining_tickets ==
               screening[r].capacity - screening[r].bookings_count
           update == [id |-> sid, available_tickets |-> remaining_tickets,
                      total_capacity |-> screening[r].capacity]
       IN  IF outcome = "ok"
           THEN /\ outbox' = Append(outbox,
                                 Message(<<"screenings", sid>>, update, r))
                /\ UNCHANGED <<showings, bookings>>
           ELSE /\ outbox' = outbox
                /\ bookings' = {b \in bookings : b.id # r}
                /\ showings' = [showings EXCEPT ![sid].bookings_count =
                                   screening[r].bookings_count - 1]
    /\ pc' = [pc EXCEPT ![r] =
                 IF outcome = "raise" THEN "failed_500" ELSE "returned"]
    /\ UNCHANGED <<seat_reservations, side, req, screening, connected, inbox,
                   mqtt_client, subscriptions, published, received>>

\* lines 70-89: publish the remaining tickets, then return the booking.
\* The session was committed at line 68: neither a refused publish nor an
\* exception out of it touches the committed rows.
ReservePublish(r, outcome) ==
    /\ pc[r] = "committed"
    /\ outcome \in PublishOutcomes
    /\ LET sid == req[r].screening_id
           remaining_tickets ==
               screening[r].capacity - screening[r].bookings_count
           update == [id |-> sid, available_tickets |-> remaining_tickets,
                      total_capacity |-> screening[r].capacity]
       IN  outbox' = IF outcome = "ok"
                     THEN Append(outbox,
                              Message(<<"screenings", sid>>, update, r))
                     ELSE outbox
    /\ pc' = [pc EXCEPT ![r] =
                 IF outcome = "raise" THEN "failed_500" ELSE "returned"]
    /\ UNCHANGED <<showings, bookings, seat_reservations, side, req, screening,
                   connected, inbox,
                   mqtt_client, subscriptions, published, received>>

\* --------------------------------------------------------- mqtt_client.py
\* init_mqtt_client called by the startup hook, lines 140-143 and 29-53:
\* the client is created, connected to the broker and its network loop is
\* started.  A startup whose connect raises (lines 51-53) ends the process
\* with `_mqtt_client` still None, a step that changes nothing.
startup_mqtt_client ==
    /\ mqtt_client = NoClient
    /\ mqtt_client' = Client("running", "connecting")
    /\ UNCHANGED <<showings, bookings, seat_reservations, side, pc, req,
                   screening, connected, inbox, outbox, subscriptions,
                   published, received>>

\* on_connect with every filter of line 60-63 but the first left out
on_connect_SubscribeOnce(rc) ==
    /\ ~connected
    /\ mqtt_client.loop = "running"
    /\ mqtt_client.link = "connecting"
    /\ connected' = (rc = 0)
    /\ IF rc = 0
       THEN /\ subscriptions' = subscriptions \cup {<<"booking", "request">>}
            /\ mqtt_client' = [mqtt_client EXCEPT !.link = "up"]
       ELSE /\ subscriptions' = subscriptions
            /\ mqtt_client' = [mqtt_client EXCEPT !.link = "lost"]
    /\ UNCHANGED <<showings, bookings, seat_reservations, side, pc, req,
                   screening, inbox, outbox, published, received>>

\* on_connect, lines 56-66, on the CONNACK of a connection attempt: rc = 0
\* is a live connection and subscribes to both filters; any other rc is a
\* refused connection, which subscribes to nothing and which the network
\* loop treats as a lost connection
on_connect(rc) ==
    /\ ~connected
    /\ mqtt_client.loop = "running"
    /\ mqtt_client.link = "connecting"
    /\ connected' = (rc = 0)
    /\ IF rc = 0
       THEN /\ subscriptions' = subscriptions \cup Subscribed
            /\ mqtt_client' = [mqtt_client EXCEPT !.link = "up"]
       ELSE /\ subscriptions' = subscriptions
            /\ mqtt_client' = [mqtt_client EXCEPT !.link = "lost"]
    /\ UNCHANGED <<showings, bookings, seat_reservations, side, pc, req,
                   screening, inbox, outbox, published, received>>

\* on_disconnect, lines 89-94: the connection is gone whatever rc says, and
\* with it the subscriptions of the session (the client of line 39 asks for
\* a clean session).  The callback itself only logs: rc = 0 ends a
\* disconnect the client asked for, any other rc is a lost connection.
on_disconnect(rc) ==
    /\ connected
    /\ connected' = FALSE
    /\ subscriptions' = {}
    /\ mqtt_client' = [mqtt_client EXCEPT
                          !.link = IF rc = 0 THEN "closed" ELSE "lost"]
    /\ UNCHANGED <<showings, bookings, seat_reservations, side, pc, req,
                   screening, inbox, outbox, published, received>>

\* the network loop started by client.loop_start(), line 49: after a lost
\* connection it waits and calls reconnect
reconnect_attempt ==
    /\ mqtt_client.loop = "running"
    /\ mqtt_client.link = "lost"
    /\ mqtt_client' = [mqtt_client EXCEPT !.link = "dialing"]
    /\ UNCHANGED <<showings, bookings, seat_reservations, side, pc, req,
                   screening, connected, inbox, outbox, subscriptions,
                   published, received>>

\* the reconnect reaches the broker (CONNECT is sent) or fails, and the
\* loop is back to waiting
reconnect_result(reachable) ==
    /\ mqtt_client.loop = "running"
    /\ mqtt_client.link = "dialing"
    /\ mqtt_client' = [mqtt_client EXCEPT
                          !.link = IF reachable THEN "connecting" ELSE "lost"]
    /\ UNCHANGED <<showings, bookings, seat_reservations, side, pc, req,
                   screening, connected, inbox, outbox, subscriptions,
                   published, received>>

\* client.publish refuses a topic with a wildcard level (ValueError)
Publishable(topic) == \A i \in DOMAIN topic : topic[i] \notin {"+", "#"}

\* publish_message, lines 112-133, on the client's own callback thread
\* (the client exists): the broker takes the message when the connection
\* is up and the topic is one a client may publish to; otherwise
\* client.publish reports an error or raises, lines 124-133, and the
\* message is dropped.  `box` is the outbox so far.
publish_message(box, topic, payload, src) ==
    IF connected /\ Publishable(topic)
    THEN Append(box, Message(topic, payload, src))
    ELSE box

MQTT_ERR_SUCCESS == 0

MQTT_ERR_NO_CONN == 4

\* no rc: client.publish raised or was not reached
NoRc == -1

\* what one call of publish_message did: how often it called
\* client.publish, the rc of that call and what the caller got
Call(topic, attempts, rc, result) ==
    [topic |-> topic, attempts |-> attempts, rc |-> rc, result |-> result]

\* publish_message, lines 112-133, called from outside the callbacks.
\* get_mqtt_client (line 116, lines 21-26) creates the client when there is
\* none, and init_mqtt_client re-raises a failed connect (lines 51-53):
\* line 116 stands before the try of line 121.  `reachable` is whether that
\* connect gets through, `rc` what client.publish returns on a live
\* connection.
call_publish_message(topic, reachable, rc) ==
    /\ Len(published) < MaxCalls
    /\ IF mqtt_client = NoClient /\ ~reachable
       THEN /\ published' = Append(published,
                                   Call(topic, 0, NoRc, "raised"))
            /\ UNCHANGED <<mqtt_client, outbox>>
       ELSE /\ mqtt_client' = IF mqtt_client = NoClient
                              THEN Client("running", "connecting")
                              ELSE mqtt_client
            /\ IF ~Publishable(topic)
               THEN /\ published' = Append(published,
                                           Call(topic, 1, NoRc, "False"))
                    /\ outbox' = outbox
               ELSE LET result_rc == IF connected THEN rc
                                     ELSE MQTT_ERR_NO_CONN
                    IN  IF result_rc # MQTT_ERR_SUCCESS
                        THEN /\ published' = Append(published,
                                     Call(topic, 1, result_rc, "False"))
                             /\ outbox' = outbox
                        ELSE /\ published' = Append(published,
                                     Call(topic, 1, result_rc, "True"))
                             /\ outbox' = publish_message(outbox, topic,
                                              [id |-> topic[2]],
                                              Len(published) + 1)
    /\ UNCHANGED <<showings, bookings, seat_reservations, side, pc, req,
                   screening, connected, inbox, subscriptions, received>>

\* the loop of lines 195-205 run over the list from its end
RECURSIVE PublishSeatUpdates_Reversed(_, _, _, _, _)
PublishSeatUpdates_Reversed(box, user_id, showing_id, seats, src) ==
    IF seats = << >> THEN box
    ELSE publish_message(
             PublishSeatUpdates_Reversed(box, user_id, showing_id,
                                         Tail(seats), src),
             <<"seats", "updates">>,
             [showingId |-> showing_id, seatId |-> Head(seats),
              status |-> "booked", updatedAt |-> "2025-05-01T12:00:00Z",
              userId |-> user_id], src)

\* lines 195-205: one seats/updates message per seat, in list order
RECURSIVE PublishSeatUpdates(_, _, _, _, _)
PublishSeatUpdates(box, user_id, showing_id, seats, src) ==
    IF seats = << >> THEN box
    ELSE PublishSeatUpdates(
             publish_message(box, <<"seats", "updates">>,
                 [showingId |-> showing_id, seatId |-> Head(seats),
                  status |-> "booked", updatedAt |-> "2025-05-01T12:00:00Z",
                  userId |-> user_id], src),
             user_id, showing_id, Tail(seats), src)

\* lines 208-217: one showing/{showing_id}/seats message per seat
RECURSIVE PublishShowingSeats(_, _, _, _, _)
PublishShowingSeats(box, user_id, showing_id, seats, src) ==
    IF seats = << >> THEN box
    ELSE PublishShowingSeats(
             publish_message(box, <<"showing", showing_id, "seats">>,
                 [seatId |-> Head(seats), status |-> "booked",
                  updatedAt |-> "2025-05-01T12:00:00Z",
                  userId |-> user_id], src),
             user_id, showing_id, Tail(seats), src)

\* the seat lists a booking/request may carry
RECURSIVE SeqsUpTo(_, _)
SeqsUpTo(S, n) ==
    IF n = 0 THEN {<< >>}
    ELSE LET shorter == SeqsUpTo(S, n - 1)
         IN  shorter \cup {Append(q, x) : q \in shorter, x \in S}

SeatLists == SeqsUpTo(SeatIds, MaxSeats)

Payload(user_id, showing_id, seats) ==
    [userId |-> user_id, showingId |-> showing_id, seats |-> seats]

\* the booking/request payloads that arrive: the complete ones, from either
\* user for one showing, the ones that lack the user, the showing, the
\* seats, or all three, and a complete one whose userId is the string "+"
Payloads ==
    {Payload(u, "s1", q) : u \in Users, q \in SeatLists \ {<< >>}}
    \cup {Payload(None, "s1", <<"A1">>), Payload("u1", None, <<"A1">>),
          Payload("u1", "s1", << >>), Payload(None, None, << >>),
          Payload("+", "s1", <<"A1">>)}

\* the body of handle_booking_request, lines 160-217: what it publishes
\* for request number `src`.  A missing field is None; the f-string of the
\* response topic prints it as "None".  No table is read or written:
\* success is the constant True of line 184.
BookingRequestPublishes(box, user_id, showing_id, seats, src) ==
    LET response == <<"booking", "response", user_id>>
    IN  IF user_id = None \/ showing_id = None \/ seats = << >>
        THEN publish_message(box, response,
                 [success |-> FALSE,
                  message |-> "Invalid booking request",
                  bookingId |-> None], src)
        ELSE LET success == TRUE
                 b1 == publish_message(box, response,
                           [success |-> success,
                            message |-> "Booking successful",
                            bookingId |-> "123456"], src)
                 b2 == PublishSeatUpdates(b1, user_id, showing_id,
                                          seats, src)
             IN  PublishShowingSeats(b2, user_id, showing_id, seats, src)

\* handle_booking_request, lines 157-217, invoked with a decoded payload
handle_booking_request(user_id, showing_id, seats) ==
    /\ Len(inbox) < MaxInbound
    /\ inbox' = Append(inbox, Payload(user_id, showing_id, seats))
    /\ outbox' = BookingRequestPublishes(outbox, user_id, showing_id,
                                         seats, Len(inbox) + 1)
    /\ UNCHANGED <<showings, bookings, seat_reservations, side, pc, req,
                   screening, connected,
                   mqtt_client, subscriptions, published, received>>

\* what arrives as msg.payload: bytes that are no JSON, a JSON array, or a
\* JSON object with its fields
Body(kind, value) == [kind |-> kind, value |-> value]

NoValue == [none |-> TRUE]

Malformed == Body("malformed", NoValue)

JsonArray == Body("array", NoValue)

JsonObject(fields) == Body("object", fields)

\* {"showingId": showing_id, **payload}, line 232: the keys of both, a key
\* of `over` winning over the same key of `base`
Merge(base, over) ==
    [k \in (DOMAIN base) \cup (DOMAIN over) |->
        IF k \in DOMAIN over THEN over[k] ELSE base[k]]

\* what a handler did: the outbox after it and whether it raised
Handled(box, raised) == [box |-> box, raised |-> raised]

\* handle_seat_status, lines 220-232.  The third topic level is the
\* showing; a topic without one is logged and dropped.  A payload that is
\* no dict makes the ** of line 232 raise.
handle_seat_status(box, topic, body, src) ==
    LET showing_id == IF Len(topic) > 2 THEN topic[3] ELSE None
    IN  IF showing_id = None \/ showing_id = ""
        THEN Handled(box, FALSE)
        ELSE IF body.kind # "object"
             THEN Handled(box, TRUE)
             ELSE Handled(publish_message(box, <<"seats", "updates">>,
                              Merge([showingId |-> showing_id], body.value),
                              src),
                          FALSE)

\* handle_booking_request as on_message calls it, line 79: payload.get of
\* line 160 raises on a payload that is no dict
HandleBookingRequest(box, topic, body, src) ==
    IF body.kind # "object"
    THEN Handled(box, TRUE)
    ELSE Handled(BookingRequestPublishes(box, body.value.userId,
                     body.value.showingId, body.value.seats, src),
                 FALSE)

\* _topic_handlers, line 18, as the decorators of lines 156 and 220 fill
\* it: a dict, iterated in insertion order
topic_handlers ==
    << [pattern |-> <<"booking", "request">>,
        handler |-> "handle_booking_request"],
       [pattern |-> <<"seats", "status", "#">>,
        handler |-> "handle_seat_status"] >>

\* mqtt.topic_matches_sub, line 78: level by level, "+" for one level,
\* "#" for the rest of the topic, the parent level included
RECURSIVE topic_matches_sub(_, _)
topic_matches_sub(sub, topic) ==
    IF sub = << >> THEN topic = << >>
    ELSE IF Head(sub) = "#" THEN TRUE
    ELSE IF topic = << >> THEN FALSE
    ELSE IF Head(sub) = "+" \/ Head(sub) = Head(topic)
         THEN topic_matches_sub(Tail(sub), Tail(topic))
         ELSE FALSE

\* handler(client, topic, payload), line 79
Invoke(handler, box, topic, body, src) ==
    IF handler = "handle_booking_request"
    THEN HandleBookingRequest(box, topic, body, src)
    ELSE handle_seat_status(box, topic, body, src)

\* what on_message did with a payload that decoded: the handlers it called,
\* the outbox after them, whether one raised
Dispatched(handlers, box, raised) ==
    [handlers |-> handlers, box |-> box, raised |-> raised]

\* the loop of lines 77-80 with the test of line 78 left out
Dispatch_NoMatchTest(i, box, topic, body, src) ==
    IF i > Len(topic_handlers) THEN Dispatched(<< >>, box, FALSE)
    ELSE LET h == Invoke(topic_handlers[i].handler, box, topic, body, src)
         IN  Dispatched(<<topic_handlers[i].handler>>, h.box, h.raised)

\* lines 77-82: the registered pairs in order, the first whose pattern
\* matches the topic is called and ends the loop; the else of the for is
\* the topic no pattern matches
RECURSIVE Dispatch(_, _, _, _, _)
Dispatch(i, box, topic, body, src) ==
    IF i > Len(topic_handlers) THEN Dispatched(<< >>, box, FALSE)
    ELSE IF topic_matches_sub(topic_handlers[i].pattern, topic)
         THEN LET h == Invoke(topic_handlers[i].handler, box, topic, body,
                              src)
              IN  Dispatched(<<topic_handlers[i].handler>>, h.box, h.raised)
         ELSE Dispatch(i + 1, box, topic, body, src)

\* one message handed to on_message and what became of it
Received(topic, body, handlers, outcome) ==
    [topic |-> topic, body |-> body, handlers |-> handlers,
     outcome |-> outcome]

\* the network loop is alive: no callback has raised into it
LoopAlive == \A k \in DOMAIN received : received[k].outcome # "raised"

\* on_message with the `except Exception` of lines 85-86 left out: what a
\* handler raises leaves on_message
on_message_NoCatchAll(topic, body) ==
    /\ Len(received) < MaxInbound
    /\ mqtt_client.loop = "running"
    /\ LoopAlive
    /\ LET src == Len(received) + 1
       IN  IF body.kind = "malformed"
           THEN /\ received' = Append(received,
                        Received(topic, body, << >>, "decode_error"))
                /\ outbox' = outbox
           ELSE LET d == Dispatch(1, outbox, topic, body, src)
                IN  /\ received' = Append(received,
                            Received(topic, body, d.handlers,
                                IF d.raised THEN "raised"
                                ELSE IF d.handlers = << >>
                                     THEN "no_handler" ELSE "handled"))
                    /\ outbox' = d.box
    /\ UNCHANGED <<showings, bookings, seat_reservations, side, pc, req,
                   screening, connected, inbox, mqtt_client, subscriptions,
                   published>>

\* on_message, lines 69-86, on the network loop's thread: decode the
\* payload, dispatch it, log and swallow whatever goes wrong
on_message(topic, body) ==
    /\ Len(received) < MaxInbound
    /\ mqtt_client.loop = "running"
    /\ LoopAlive
    /\ LET src == Len(received) + 1
       IN  IF body.kind = "malformed"
           THEN /\ received' = Append(received,
                        Received(topic, body, << >>, "decode_error"))
                /\ outbox' = outbox
           ELSE LET d == Dispatch(1, outbox, topic, body, src)
                IN  /\ received' = Append(received,
                            Received(topic, body, d.handlers,
                                IF d.raised THEN "handler_error"
                                ELSE IF d.handlers = << >>
                                     THEN "no_handler" ELSE "handled"))
                    /\ outbox' = d.box
    /\ UNCHANGED <<showings, bookings, seat_reservations, side, pc, req,
                   screening, connected, inbox, mqtt_client, subscriptions,
                   published>>

Next ==
    \/ \E sid \in ShowingIds, room \in Rooms, start \in Times :
           create_screening(sid, room, start, start + SlotLength)
    \/ \E r \in ReqIds, user \in Callers, sid \in ShowingIds, key \in Keys :
           ReserveLoad(r, user, sid, key)
    \/ \E r \in ReqIds : ReserveCommit(r)
    \/ \E r \in ReqIds, outcome \in PublishOutcomes :
           ReservePublish(r, outcome)

\* the HTTP side: screenings are created and tickets are reserved by
\* concurrent requests
Spec == Init /\ [][Next]_vars

NextBroker ==
    \/ \E p \in Payloads :
           handle_booking_request(p.userId, p.showingId, p.seats)
    \/ \E rc \in {0, 5} : on_connect(rc)
    \/ \E rc \in {0, 1} : on_disconnect(rc)
    \/ reconnect_attempt
    \/ \E reachable \in BOOLEAN : reconnect_result(reachable)

\* every request handler runs to its end: a loaded request commits, a
\* committed one publishes and returns
SpecLive ==
    /\ Spec
    /\ \A r \in ReqIds :
           /\ WF_vars(ReserveCommit(r))
           /\ WF_vars(\E outcome \in PublishOutcomes :
                          ReservePublish(r, outcome))

\* the broker side: booking/request messages arrive on the callback thread
SpecBroker == Init /\ [][NextBroker]_vars

\* a seats/status payload as a seat sensor or an operator sends it, with
\* and without a showingId of its own
SeatStatus(seat_id, status, updated_at) ==
    [seatId |-> seat_id, status |-> status, updatedAt |-> updated_at]

StatusBodies ==
    {JsonObject(SeatStatus("A1", "available", "2025-06-01T09:00:00Z")),
     JsonObject(Merge(SeatStatus("A1", "available", "2025-06-01T09:00:00Z"),
                      [showingId |-> "s2"]))}

BookingBodies ==
    {JsonObject(Payload("u1", "s1", <<"A1">>)),
     JsonObject(Payload("u2", "s1", <<"A1", "A2">>)),
     JsonObject(Payload("u1", None, <<"A1">>))}

\* the messages the broker delivers: on booking/request, on a seat's
\* status topic, on seats/status itself (which seats/status/# matches) and
\* on a topic no handler is registered for
InboundMessages ==
    ({<<"booking", "request">>}
        \X ({Malformed, JsonArray} \cup BookingBodies))
    \cup ({<<"seats", "status", "s1", "A1">>}
        \X ({Malformed, JsonArray} \cup StatusBodies))
    \cup ({<<"seats", "status">>} \X ({JsonArray} \cup StatusBodies))
    \cup ({<<"cinema", "news">>} \X ({Malformed} \cup StatusBodies))

NextInbound ==
    \/ \E msg \in InboundMessages : on_message(msg[1], msg[2])
    \/ \E rc \in {0, 5} : on_connect(rc)
    \/ \E rc \in {1, 7} : on_disconnect(rc)
    \/ reconnect_attempt
    \/ \E reachable \in BOOLEAN : reconnect_result(reachable)

\* the callback thread: whatever the broker delivers goes through
\* on_message while the connection comes and goes
SpecInbound == Init /\ [][NextInbound]_vars

\* the module as imported, line 15: no client yet
InitAdapter ==
    /\ showings = [s \in ShowingIds |-> NoShowing]
    /\ bookings = {}
    /\ seat_reservations = {}
    /\ pc = [r \in ReqIds |-> "idle"]
    /\ req = [r \in ReqIds |-> NoRequest]
    /\ screening = [r \in ReqIds |-> NoObject]
    /\ connected = FALSE
    /\ inbox = << >>
    /\ outbox = << >>
    /\ mqtt_client = NoClient
    /\ subscriptions = {}
    /\ published = << >>
    /\ received = << >>
    /\ SideInit

\* the topics publish_message is called with: a screening's own topic and
\* one with a wildcard level
CallTopics == {<<"screenings", "s1">>, <<"screenings", "#">>}

NextAdapter ==
    \/ startup_mqtt_client
    \/ \E topic \in CallTopics, reachable \in BOOLEAN,
          rc \in {MQTT_ERR_SUCCESS, MQTT_ERR_NO_CONN} :
           call_publish_message(topic, reachable, rc)
    \/ \E rc \in {0, 5} : on_connect(rc)
    \/ \E rc \in {1, 7} : on_disconnect(rc)
    \/ reconnect_attempt
    \/ \E reachable \in BOOLEAN : reconnect_result(reachable)

\* the adapter on its own: the client is created at startup or by the
\* first publish, its connection comes and goes, callers publish
SpecAdapter == InitAdapter /\ [][NextAdapter]_vars

\* the network loop of line 49 runs for as long as the process does: a
\* reconnect it owes is made
SpecAdapterFair == SpecAdapter /\ WF_vars(reconnect_attempt)

\* what a manager may put into the optional fields of PUT /screenings/{id}
RoomInputs == Rooms \cup {None}

StartInputs == Times \cup {NoTime}

EndInputs == {t + SlotLength : t \in Times} \cup {NoTime}

StatusInputs == {None, "scheduled", "cancelled"}

NextAdmin ==
    \/ \E sid \in ShowingIds, room \in Rooms, start \in Times :
           create_screening(sid, room, start, start + SlotLength)
    \/ \E sid \in ShowingIds, room \in Rooms, start \in Times,
          st \in StatusInputs \ {None} :
           create_showing(sid, room, start, start + SlotLength, st)
    \/ \E sid \in ShowingIds, room \in RoomInputs, start \in StartInputs,
          end \in EndInputs, st \in StatusInputs :
           update_screening(sid, room, start, end, st)
    \/ \E sid \in ShowingIds : delete_screening_load(sid)
    \/ \E sid \in ShowingIds : delete_screening_commit(sid)

\* the managers' side: the programme is planned and changed
SpecAdmin == Init /\ [][NextAdmin]_vars

\* the store with one showing on sale, one ticket of it sold and the seat
\* of that ticket reserved
InitSold ==
    /\ showings = [s \in ShowingIds |->
                      IF s = "s1"
                      THEN Showing("r2", 0, SlotLength, "scheduled", 1)
                      ELSE NoShowing]
    /\ bookings = {Booking(0, "u2", "s1", "confirmed", 1)}
    /\ seat_reservations = {SeatReservation(0, "s1", "A", 1, "booked", NoTime)}
    /\ pc = [r \in ReqIds |-> "idle"]
    /\ req = [r \in ReqIds |-> NoRequest]
    /\ screening = [r \in ReqIds |-> NoObject]
    /\ connected = TRUE
    /\ inbox = << >>
    /\ outbox = << >>
    /\ mqtt_client = Client("running", "up")
    /\ subscriptions = Subscribed
    /\ published = << >>
    /\ received = << >>
    /\ SideInit

NextManage ==
    \/ \E sid \in ShowingIds, room \in Rooms :
           create_screening(sid, room, 0, SlotLength)
    \/ \E r \in ReqIds, user \in Callers, sid \in ShowingIds :
           ReserveLoad(r, user, sid, r)
    \/ \E r \in ReqIds : ReserveCommit(r)
    \/ \E r \in ReqIds, outcome \in PublishOutcomes :
           ReservePublish(r, outcome)
    \/ \E sid \in ShowingIds, room \in RoomInputs, st \in StatusInputs :
           update_screening(sid, room, NoTime, NoTime, st)

\* tickets are sold while the managers move and cancel screenings
SpecManage == Init /\ [][NextManage]_vars

NextDelete ==
    \/ \E r \in ReqIds, user \in Callers, sid \in ShowingIds :
           ReserveLoad(r, user, sid, r)
    \/ \E r \in ReqIds : ReserveCommit(r)
    \/ \E r \in ReqIds, outcome \in PublishOutcomes :
           ReservePublish(r, outcome)
    \/ \E sid \in ShowingIds : delete_screening_load(sid)
    \/ \E sid \in ShowingIds : delete_screening_commit(sid)

\* tickets are sold while a manager deletes the screening
SpecDelete == InitSold /\ [][NextDelete]_vars

\* --------------------------------------------------------- cancellation
\* No route cancels a booking; the state "cancelled" is declared at
\* booking.py:18-22.  The cancellation is the one the specification
\* describes: one transaction that marks a pending or confirmed booking
\* cancelled, gives its tickets back to the showing's counter and sets the
\* seat reservations the booking owns to available.
cancel_booking(bid) ==
    /\ \E b \in bookings :
           /\ b.id = bid
           /\ b.status \in {"pending", "confirmed"}
           /\ Exists(b.showing_id)
           /\ bookings' = (bookings \ {b})
                             \cup {[b EXCEPT !.status = "cancelled"]}
           /\ showings' = [showings EXCEPT
                              ![b.showing_id].bookings_count =
                                  @ - b.ticket_count]
    /\ seat_reservations' =
           {IF rs.booking_id = bid
            THEN [rs EXCEPT !.status = "available"] ELSE rs :
               rs \in seat_reservations}
    /\ UNCHANGED <<side, pc, req, screening, connected, inbox, outbox,
                   mqtt_client, subscriptions, published, received>>

NextCancel ==
    \/ \E r \in ReqIds, user \in Callers, sid \in ShowingIds :
           ReserveLoad(r, user, sid, r)
    \/ \E r \in ReqIds : ReserveCommit(r)
    \/ \E r \in ReqIds, outcome \in PublishOutcomes :
           ReservePublish(r, outcome)
    \/ \E bid \in {0} \cup ReqIds : cancel_booking(bid)

\* tickets of a showing on sale are sold and given back
SpecCancel == InitSold /\ [][NextCancel]_vars

\* ------------------------------------------------- showings.py (seat map)
\* lines 137-138: the hall the endpoint lays out
rows == <<"A", "B", "C", "D", "E", "F", "G", "H">>

seats_per_row == 12

\* lines 140-160: the entry of one seat.  The status is "available" but for
\* four seats of rows D and E; no table is consulted.
SeatEntry(row, number) ==
    LET is_accessible == row = "H" /\ number \in {1, 2}
    IN  [id |-> <<row, number>>, row |-> row, number |-> number,
         status |-> IF \/ (row = "D" /\ number \in {6, 7})
                       \/ (row = "E" /\ number \in {6, 7})
                    THEN "booked" ELSE "available",
         isAccessible |-> is_accessible,
         price |-> IF is_accessible THEN 15 ELSE 12]

\* the two loops of lines 140-141, rows outside, numbers inside
SeatEntries ==
    [k \in 1..(Len(rows) * seats_per_row) |->
        SeatEntry(rows[((k - 1) \div seats_per_row) + 1],
                  ((k - 1) % seats_per_row) + 1)]

Response(sid, now, code, seats) ==
    [showing_id |-> sid, at |-> now, status_code |-> code, seats |-> seats]

\* GET /showings/seats/{showing_id}, lines 95-163, answered at time `now`:
\* 404 for a showing that is not stored, the seat list otherwise
get_showing_seats(showing_id, now) ==
    /\ seat_map' = IF ~Exists(showing_id)
                   THEN Response(showing_id, now, 404, << >>)
                   ELSE Response(showing_id, now, 200, SeatEntries)
    /\ UNCHANGED <<showings, bookings, seat_reservations, pc, req,
                   screening, connected, inbox, outbox, mqtt_client,
                   subscriptions, published, received, callers, current,
                   deletion>>

\* the seats and states the stored reservations are drawn from
ReservedSeats == {<<"A", 1>>, <<"D", 6>>}

ReservationStates == {"available", "selected", "reserved", "booked"}

Reservations ==
    {SeatReservation(0, "s1", seat[1], seat[2], st, e) :
        seat \in ReservedSeats, st \in ReservationStates,
        e \in Times \cup {NoTime}}

\* the tables of at most MaxSeats rows
ReservationTables ==
    {{}} \cup {{f[i] : i \in 1..MaxSeats} :
                  f \in [1..MaxSeats -> Reservations]}

\* one showing is on sale and the reservation table holds any rows
InitSeatMap ==
    /\ showings = [s \in ShowingIds |->
                      IF s = "s1"
                      THEN Showing("r2", 0, SlotLength, "scheduled", 0)
                      ELSE NoShowing]
    /\ bookings = {}
    /\ seat_reservations \in ReservationTables
    /\ pc = [r \in ReqIds |-> "idle"]
    /\ req = [r \in ReqIds |-> NoRequest]
    /\ screening = [r \in ReqIds |-> NoObject]
    /\ connected = TRUE
    /\ inbox = << >>
    /\ outbox = << >>
    /\ mqtt_client = Client("running", "up")
    /\ subscriptions = Subscribed
    /\ published = << >>
    /\ received = << >>
    /\ SideInit

NextSeatMap ==
    \E sid \in ShowingIds, now \in Times : get_showing_seats(sid, now)

SpecSeatMap == InitSeatMap /\ [][NextSeatMap]_vars

\* ------------------------------------------- mqtt_client.py (singleton)
\* Thread 1 is the thread of the event loop: the startup hook and the
\* request handlers (bookings.py:108) run on it one after the other.  The
\* other threads are network threads of paho clients, which run the topic
\* handlers and with them publish_message and get_mqtt_client (line 116);
\* such a thread exists once a client's loop_start has been called.
RECURSIVE Made(_)
Made(ts) ==
    IF ts = {} THEN 0
    ELSE LET t == CHOOSE x \in ts : TRUE
         IN  callers[t].made + Made(ts \ {t})

\* mqtt.Client(...) of line 38 is a new object each time it is evaluated
NewClient(t) == t + NumThreads * callers[t].made

SideStep(t, c) ==
    /\ callers' = [callers EXCEPT ![t] = c]
    /\ UNCHANGED <<showings, bookings, seat_reservations, pc, req,
                   screening, connected, inbox, outbox, subscriptions,
                   published, received, seat_map, deletion>>

\* a call of get_mqtt_client (line 21) or of init_mqtt_client (line 29)
call_client(t, via) ==
    /\ callers[t].at \in {"idle", "done", "raised"}
    /\ callers[t].calls < MaxCalls
    /\ t # 1 => Made(Threads) > 0
    /\ SideStep(t, [callers[t] EXCEPT
                       !.at = IF via = "get_mqtt_client"
                              THEN "line 24" ELSE "line 33",
                       !.via = via, !.client = NoClientId,
                       !.got = NoClientId, !.calls = @ + 1])
    /\ UNCHANGED <<current, mqtt_client>>

\* line 24: `if _mqtt_client is None: init_mqtt_client()`
get_mqtt_client_test(t) ==
    /\ callers[t].at = "line 24"
    /\ SideStep(t, [callers[t] EXCEPT
                       !.at = IF current = NoClientId
                              THEN "line 33" ELSE "line 26"])
    /\ UNCHANGED <<current, mqtt_client>>

\* lines 33-43: return if `_mqtt_client` is set, else build a client
init_mqtt_client_test(t) ==
    /\ callers[t].at = "line 33"
    /\ SideStep(t, IF current # NoClientId
                   THEN [callers[t] EXCEPT
                           !.at = IF callers[t].via = "get_mqtt_client"
                                  THEN "line 26" ELSE "done"]
                   ELSE [callers[t] EXCEPT
                           !.at = "line 46", !.client = NewClient(t)])
    /\ UNCHANGED <<current, mqtt_client>>

\* lines 46-49: connect and loop_start; a connect that raises is logged and
\* raised again (lines 51-53) and leaves the caller with the exception
init_mqtt_client_connect(t, reachable) ==
    /\ callers[t].at = "line 46"
    /\ SideStep(t, IF reachable
                   THEN [callers[t] EXCEPT !.at = "line 50", !.made = @ + 1]
                   ELSE [callers[t] EXCEPT !.at = "raised"])
    /\ UNCHANGED <<current, mqtt_client>>

\* line 50: `_mqtt_client = client`
init_mqtt_client_assign(t) ==
    /\ callers[t].at = "line 50"
    /\ current' = callers[t].client
    /\ mqtt_client' = Client("running", "connecting")
    /\ SideStep(t, [callers[t] EXCEPT
                       !.at = IF callers[t].via = "get_mqtt_client"
                              THEN "line 26" ELSE "done"])

\* line 26: `return _mqtt_client`
get_mqtt_client_return(t) ==
    /\ callers[t].at = "line 26"
    /\ SideStep(t, [callers[t] EXCEPT !.at = "done", !.got = current])
    /\ UNCHANGED <<current, mqtt_client>>

NextSingleton ==
    \/ \E t \in Threads, via \in {"get_mqtt_client", "init_mqtt_client"} :
           call_client(t, via)
    \/ \E t \in Threads : get_mqtt_client_test(t)
    \/ \E t \in Threads : init_mqtt_client_test(t)
    \/ \E t \in Threads, reachable \in BOOLEAN :
           init_mqtt_client_connect(t, reachable)
    \/ \E t \in Threads : init_mqtt_client_assign(t)
    \/ \E t \in Threads : get_mqtt_client_return(t)

\* the process before its startup hook has run
SpecSingleton == InitAdapter /\ [][NextSingleton]_vars

\* ================================================================ claims
HasBooking(r) == \E b \in bookings : b.id = r

Finished(r) == pc[r] \in {"committed", "returned", "failed_500"}

RoomCapacity(sid) == capacity[showings[sid].room_id]

\* C1: the tickets of the confirmed bookings committed for a showing never
\* exceed the capacity of its room, whatever the interleaving of the
\* reserve_ticket requests.
C1_NoOversell ==
    \A sid \in ShowingIds :
        Exists(sid) => ConfirmedTickets(sid) <= RoomCapacity(sid)

\* a request that committed the last ticket of its showing: its session
\* saw one ticket left and its commit wrote the counter up to the capacity
TookLastTicket(r) ==
    /\ Finished(r)
    /\ HasBooking(r)
    /\ screening[r].bookings_count = screening[r].capacity

\* C2: of two requests racing for the last ticket of a showing, exactly one
\* commits a booking: no two requests both take the last ticket.
C2_LastTicketOnce ==
    \A r1, r2 \in ReqIds :
        (/\ r1 # r2
         /\ req[r1].screening_id = req[r2].screening_id
         /\ TookLastTicket(r1))
        => ~TookLastTicket(r2)

\* C3: in every committed state the bookings_count of a showing is at most
\* the capacity of its room.
C3_CountWithinCapacity ==
    \A sid \in ShowingIds :
        Exists(sid) => showings[sid].bookings_count <= RoomCapacity(sid)

\* C3 witness: two requests raced on a showing and both committed, and the
\* counter stands at the capacity
C3_Witness ==
    \E sid \in ShowingIds :
        /\ Exists(sid)
        /\ showings[sid].bookings_count = RoomCapacity(sid)
        /\ \E r1, r2 \in ReqIds :
              /\ r1 # r2
              /\ req[r1].screening_id = sid /\ req[r2].screening_id = sid
              /\ HasBooking(r1) /\ HasBooking(r2)

\* C4: in every committed state the bookings_count of a showing equals the
\* number of tickets held by its confirmed bookings (0 at creation, one
\* more per committed reservation, no increment lost).
C4_CountMatchesBookings ==
    \A sid \in ShowingIds :
        Exists(sid) => showings[sid].bookings_count = ConfirmedTickets(sid)

Rejected(st) == st \in {"rejected_404", "rejected_400"}

\* C7: the step in which reserve_ticket is rejected (404 or 400) persists
\* no booking and leaves every showing row, its bookings_count included,
\* as it was.
C7_RejectWritesNothing ==
    [][(\E r \in ReqIds : ~Rejected(pc[r]) /\ Rejected(pc'[r]))
          => (bookings' = bookings /\ showings' = showings)]_vars

\* C7 witness: a request was turned away from a sold-out showing that
\* holds a committed booking
C7_Witness ==
    \E r \in ReqIds :
        /\ pc[r] = "rejected_400"
        /\ ~HasBooking(r)
        /\ BookingsOf(req[r].screening_id) # {}

\* C8: a request submitted twice (same user, same showing, same
\* idempotency key) creates one booking only.
C8_Idempotent ==
    \A r1, r2 \in ReqIds :
        (r1 # r2 /\ req[r1] # NoRequest /\ req[r1] = req[r2])
        => ~(HasBooking(r1) /\ HasBooking(r2))

\* C10: the step that follows the commit of reserve_ticket, when its
\* publish is refused or raises, leaves the committed booking and the
\* incremented bookings_count in place.
C10_PublishFailureKeepsCommit ==
    [][\A r \in ReqIds :
          (pc[r] = "committed" /\ pc'[r] # "committed" /\ outbox' = outbox)
          => /\ \E b \in bookings' : b.id = r
             /\ bookings' = bookings
             /\ showings' = showings]_vars

\* C10 witness: a request has ended after a commit whose update never
\* reached the broker, and its booking is still there
C10_Witness ==
    \E r \in ReqIds :
        /\ pc[r] \in {"returned", "failed_500"}
        /\ HasBooking(r)
        /\ showings[req[r].screening_id].bookings_count >= 1
        /\ ~\E i \in DOMAIN outbox :
               outbox[i].topic[1] = "screenings" /\ outbox[i].src = r

\* C11: a request of reserve_ticket whose booking has been committed ends
\* with the success response, whether the broadcast that follows the commit
\* succeeds, is refused or raises: no request ends in an error while its
\* booking stands.
C11_CommittedGetsSuccess ==
    \A r \in ReqIds :
        (HasBooking(r) /\ pc[r] # "committed") => pc[r] = "returned"

\* C12: every call of publish_message makes at most one publish attempt,
\* returns True only when the client reported success, and returns False
\* on every failure, the client that cannot be created inside the call
\* included: no call raises to its caller.
C12_PublishBestEffort ==
    \A i \in DOMAIN published :
        /\ published[i].attempts <= 1
        /\ published[i].result = "True"
               => published[i].rc = MQTT_ERR_SUCCESS
        /\ published[i].result \in {"True", "False"}

\* C16: whenever the client is connected it is subscribed to both
\* booking/request and seats/status/#, a refused connect (rc # 0)
\* subscribes to nothing, and a connection lost while the network loop runs
\* is followed by a reconnect attempt.
C16_SubscribedWhileConnected ==
    /\ [](connected => subscriptions = Subscribed)
    /\ [][(mqtt_client.link = "connecting" /\ mqtt_client'.link = "lost")
             => subscriptions' = subscriptions /\ subscriptions' = {}]_vars
    /\ (mqtt_client.link = "lost") ~> (mqtt_client.link = "dialing")

\* C16 witness: the client was connected (a call got through), the
\* connection was lost, and the loop is making its reconnect attempt with
\* the subscriptions of the old session gone
C16_Witness ==
    /\ ~connected
    /\ mqtt_client.link = "dialing"
    /\ subscriptions = {}
    /\ \E i \in DOMAIN published : published[i].result = "True"

IsSeatUpdate(m) == m.topic = <<"seats", "updates">>

IsShowingSeats(m) == Len(m.topic) = 3 /\ m.topic[1] = "showing"

IsBookingResponse(m) == Len(m.topic) = 3 /\ m.topic[1] = "booking"

IsScreeningUpdate(m) == Len(m.topic) = 2 /\ m.topic[1] = "screenings"

Elems(q) == {q[i] : i \in DOMAIN q}

\* the complete requests: the ones line 184 calls a success
Complete(p) == p.userId # None /\ p.showingId # None /\ p.seats # << >>

\* positions in the outbox of the messages request m produced
Produced(m) == {i \in DOMAIN outbox : outbox[i].src = m}

\* C13: every booking/request message yields exactly one message on
\* booking/response/{userId}, addressed to the userId of that request and
\* carrying an explicit success flag, published before any seat update of
\* the same request.
C13_OneResponseFirst ==
    \A m \in DOMAIN inbox :
        LET responses == {i \in Produced(m) : IsBookingResponse(outbox[i])}
        IN  /\ Cardinality(responses) = 1
            /\ \A i \in responses :
                   /\ outbox[i].topic[3] = inbox[m].userId
                   /\ outbox[i].payload.success \in BOOLEAN
                   /\ \A j \in Produced(m) : i <= j

\* how many messages of request m on a topic picked by `is` name the seat
SeatMessages(m, seat, is(_)) ==
    Cardinality({i \in Produced(m) :
                     is(outbox[i]) /\ outbox[i].payload.seatId = seat})

\* C17: a successful booking request for showing S with seat list L
\* produces, for each seat in L, exactly one message on seats/updates and
\* exactly one on showing/{S}/seats, each with status "booked", and no seat
\* message for a seat outside L.
C17_OneMessagePerSeat ==
    \A m \in DOMAIN inbox :
        Complete(inbox[m])
        => /\ \A seat \in SeatIds :
                  LET n == IF seat \in Elems(inbox[m].seats) THEN 1 ELSE 0
                  IN  /\ SeatMessages(m, seat, IsSeatUpdate) = n
                      /\ SeatMessages(m, seat, IsShowingSeats) = n
           /\ \A i \in Produced(m) :
                  /\ IsSeatUpdate(outbox[i])
                         => /\ outbox[i].payload.status = "booked"
                            /\ outbox[i].payload.showingId
                                   = inbox[m].showingId
                  /\ IsShowingSeats(outbox[i])
                         => /\ outbox[i].payload.status = "booked"
                            /\ outbox[i].topic[2] = inbox[m].showingId

\* the seats named by the messages of request m on a topic picked by `is`,
\* in publish order
SeatsNamed(m, is(_)) ==
    LET mine(x) == x.src = m /\ is(x)
        sel == SelectSeq(outbox, mine)
    IN  [i \in 1..Len(sel) |-> sel[i].payload.seatId]

\* C20: within one booking request the per-seat messages on seats/updates,
\* and likewise those on showing/{S}/seats, are published in the order in
\* which the seats appear in the request.
C20_SeatOrderKept ==
    \A m \in DOMAIN inbox :
        /\ SeatsNamed(m, IsSeatUpdate)
               \in {<< >>, inbox[m].seats}
        /\ SeatsNamed(m, IsShowingSeats)
               \in {<< >>, inbox[m].seats}

\* C20 witness: a request for two different seats has its four seat
\* messages out
C20_Witness ==
    \E m \in DOMAIN inbox :
        /\ Len(inbox[m].seats) = 2
        /\ inbox[m].seats[1] # inbox[m].seats[2]
        /\ SeatsNamed(m, IsSeatUpdate) = inbox[m].seats
        /\ SeatsNamed(m, IsShowingSeats) = inbox[m].seats

\* the registered patterns that match a topic, by position
Matching(topic) ==
    {i \in DOMAIN topic_handlers :
        topic_matches_sub(topic_handlers[i].pattern, topic)}

FirstMatching(topic) ==
    CHOOSE i \in Matching(topic) : \A j \in Matching(topic) : i <= j

\* C14: on_message dispatches each inbound message to exactly one handler,
\* the first registered pair whose pattern matches the topic, and a topic
\* that matches no pattern invokes no handler.
C14_DispatchEveryMessage ==
    \A k \in DOMAIN received :
        IF Matching(received[k].topic) = {}
        THEN received[k].handlers = << >>
        ELSE received[k].handlers
                 = <<topic_handlers[FirstMatching(received[k].topic)].handler>>

\* C14 as amended: the same of each inbound message whose payload decodes;
\* one that does not decode invokes no handler; and a message without a
\* handler leaves on_message ready for the next one.
C14_DispatchDecoded ==
    \A k \in DOMAIN received :
        /\ received[k].outcome # "raised"
        /\ IF received[k].body.kind = "malformed"
              \/ Matching(received[k].topic) = {}
           THEN received[k].handlers = << >>
           ELSE received[k].handlers
                  = <<topic_handlers[FirstMatching(received[k].topic)].handler>>

\* C14 witness: a message on a topic without a handler was dropped and the
\* next message, a seat status, reached handle_seat_status
C14_Witness ==
    \E k \in DOMAIN received :
        /\ received[k].outcome = "no_handler"
        /\ k + 1 \in DOMAIN received
        /\ received[k + 1].handlers = <<"handle_seat_status">>
        /\ received[k + 1].outcome = "handled"

\* the last message handed to on_message was a bad one
BadMessage(e) == e.outcome \in {"decode_error", "handler_error", "raised"}

\* C15: the step that handles a message whose payload does not decode or
\* whose handler raises does not raise out of on_message and changes
\* neither the connection nor the subscriptions nor the client, so that
\* every other message is dispatched from the state it would have met
\* without the bad one; a payload that does not decode publishes nothing.
C15_BadMessageRejectedAlone ==
    [][(Len(received') = Len(received) + 1
         /\ BadMessage(received'[Len(received')]))
        => /\ received'[Len(received')].outcome # "raised"
           /\ connected' = connected
           /\ subscriptions' = subscriptions
           /\ mqtt_client' = mqtt_client
           /\ received'[Len(received')].outcome = "decode_error"
                  => outbox' = outbox]_vars

\* C15 witness: after a payload whose handler raised, the connection is
\* still up and the next message, a booking request, was answered
C15_Witness ==
    /\ connected
    /\ \E k \in DOMAIN received :
           /\ received[k].outcome = "handler_error"
           /\ k + 1 \in DOMAIN received
           /\ received[k + 1].outcome = "handled"
           /\ \E i \in Produced(k + 1) : IsBookingResponse(outbox[i])

\* the seat status messages that name a showing in their topic and decode
\* to an object
IsSeatStatus(e) ==
    /\ Len(e.topic) > 2
    /\ e.topic[1] = "seats" /\ e.topic[2] = "status"
    /\ e.body.kind = "object"

\* C18: every message received on seats/status/{showingId}/... is
\* forwarded as exactly one message on seats/updates whose showingId is
\* the showingId level of the inbound topic, whatever fields the inbound
\* payload holds, the other fields carried over unchanged.
C18_StatusForwarded ==
    \A k \in DOMAIN received :
        IsSeatStatus(received[k])
        => /\ Cardinality(Produced(k)) = 1
           /\ \A i \in Produced(k) :
                  /\ IsSeatUpdate(outbox[i])
                  /\ outbox[i].payload.showingId = received[k].topic[3]
                  /\ \A f \in DOMAIN received[k].body.value :
                         f # "showingId"
                         => outbox[i].payload[f] = received[k].body.value[f]

\* the instant an updatedAt string stands for, as a rank
Instant(updated_at) ==
    IF updated_at = "2025-05-01T12:00:00Z" THEN 1 ELSE 2

\* C19: two updates for the same (showingId, seatId) emitted for different
\* reservations or corrections carry updatedAt values ordered like the
\* state changes themselves: the later change has the later updatedAt.
C19_UpdatedAtOrdered ==
    \A i, j \in DOMAIN outbox :
        (/\ i < j
         /\ IsSeatUpdate(outbox[i]) /\ IsSeatUpdate(outbox[j])
         /\ outbox[i].src # outbox[j].src
         /\ outbox[i].payload.showingId = outbox[j].payload.showingId
         /\ outbox[i].payload.seatId = outbox[j].payload.seatId)
        => Instant(outbox[i].payload.updatedAt)
               < Instant(outbox[j].payload.updatedAt)

C23_StatusMachine ==
    [][\A b2 \in bookings' :
          IF \E b1 \in bookings : b1.id = b2.id
          THEN \A b1 \in bookings :
                   b1.id = b2.id
                   => \/ b2.status = b1.status
                      \/ <<b1.status, b2.status>> \in
                            {<<"pending", "confirmed">>,
                             <<"pending", "cancelled">>,
                             <<"confirmed", "cancelled">>,
                             <<"confirmed", "completed">>}
          ELSE /\ b2.status = "confirmed"
               /\ showings'[b2.showing_id].bookings_count
                      = screening[b2.id].bookings_count + 1]_vars

\* C23 witness: a booking stands confirmed next to an older one that has
\* kept its status
C23_Witness ==
    \E b1, b2 \in bookings :
        /\ b1.id < b2.id
        /\ b1.status = "confirmed" /\ b2.status = "confirmed"
        /\ showings[b2.showing_id].bookings_count >= 1

\* an update of the screening is out that carries the tickets the
\* committed counter leaves
Reflected(sid) ==
    \E i \in DOMAIN outbox :
        /\ IsScreeningUpdate(outbox[i])
        /\ outbox[i].topic[2] = sid
        /\ outbox[i].payload.available_tickets
               = RoomCapacity(sid) - showings[sid].bookings_count
        /\ \A j \in DOMAIN outbox :
               (IsScreeningUpdate(outbox[j]) /\ outbox[j].topic[2] = sid)
               => j <= i

\* C24: every committed reservation is eventually reflected in the view of
\* the subscribers: once a request has committed its booking, an update
\* with the tickets left reaches the broker, also when the publish of
\* that request failed.
C24_EventuallyReflected ==
    \A r \in ReqIds :
        HasBooking(r) ~> Reflected(req[r].screening_id)

\* a reservation that holds its seat at time `now`: not released and, if
\* it expires, not yet expired
Active(rs, now) ==
    /\ rs.status # "available"
    /\ rs.expires_at = NoTime \/ rs.expires_at > now

\* C21: the seat map reports a seat as reserved or booked exactly when an
\* active reservation exists for that showing and seat, and as available
\* otherwise, also for a hold that has expired but is still stored.
C21_SeatMapProjection ==
    seat_map.status_code = 200
    => \A k \in DOMAIN seat_map.seats :
           LET seat == seat_map.seats[k]
               held == \E rs \in seat_reservations :
                           /\ rs.showing_id = seat_map.showing_id
                           /\ rs.row = seat.row
                           /\ rs.number = seat.number
                           /\ Active(rs, seat_map.at)
           IN  /\ seat.status \in {"reserved", "booked"} <=> held
               /\ seat.status = "available" <=> ~held

\* C29: under any interleaving of get_mqtt_client and init_mqtt_client
\* calls from different threads at most one broker client is ever created
\* and connected, and every caller obtains that same client.
C29_OneClient ==
    /\ Made(Threads) <= 1
    /\ \A t, u \in Threads :
           (callers[t].got # NoClientId /\ callers[u].got # NoClientId)
           => callers[t].got = callers[u].got

\* the instants of [start_time, end_time)
Interval(sh) == {t \in 0..(MaxTime + SlotLength) :
                    sh.start_time <= t /\ t < sh.end_time}

\* C28: after any sequence of create_screening, create_showing and
\* update_screening calls, also updates that change only the status, no two
\* scheduled showings in the same room have intersecting
\* [start_time, end_time) intervals.
C28_NoOverlap ==
    \A a, b \in ShowingIds :
        (/\ a # b
         /\ Exists(a) /\ Exists(b)
         /\ showings[a].status = "scheduled"
         /\ showings[b].status = "scheduled"
         /\ showings[a].room_id = showings[b].room_id)
        => Interval(showings[a]) \cap Interval(showings[b]) = {}

\* C25: the bookings_count of an existing showing is written only by
\* reserve_ticket on that showing: a step that changes it is the commit of
\* a reservation for that showing, never update_screening, a reservation
\* for another showing or a read.
C25_CounterFrame ==
    [][\A sid \in ShowingIds :
          (/\ Exists(sid) /\ showings'[sid] \notin {NoShowing, Gone}
           /\ showings'[sid].bookings_count # showings[sid].bookings_count)
          => \E r \in ReqIds :
                 /\ req[r].screening_id = sid
                 /\ pc[r] = "loaded" /\ pc'[r] = "committed"]_vars

\* C25 witness: a screening with a ticket sold has been cancelled by an
\* update and kept its counter, next to another showing
C25_Witness ==
    \E sid, o \in ShowingIds :
        /\ sid # o /\ Exists(sid) /\ Exists(o)
        /\ showings[sid].status = "cancelled"
        /\ showings[sid].bookings_count >= 1
        /\ \E r \in ReqIds : HasBooking(r) /\ req[r].screening_id = sid

\* C26: after any interleaving of delete_screening and reserve_ticket no
\* booking and no seat reservation refers to a showing that no longer
\* exists.
C26_NoDanglingReference ==
    /\ \A b \in bookings : Exists(b.showing_id)
    /\ \A rs \in seat_reservations : Exists(rs.showing_id)

\* C26 witness: a screening that had a booking and a seat reservation is
\* deleted with them, and a reservation that raced with the deletion failed
C26_Witness ==
    /\ showings["s1"] = Gone
    /\ deletion["s1"] = NoDeletion
    /\ seat_reservations = {}
    /\ \E r \in ReqIds :
           /\ req[r].screening_id = "s1"
           /\ pc[r] \in {"committed", "returned"}
           /\ ~HasBooking(r)
    /\ \E r \in ReqIds :
           req[r].screening_id = "s1" /\ pc[r] = "failed_500"

\* lines 51-53 and 93-95 of screenings.py, line 71 of reserve.py
available_tickets(sid) == RoomCapacity(sid) - showings[sid].bookings_count

\* C27: the available_tickets reported for a screening and the one carried
\* by the update published from reserve_ticket is never negative, also
\* after an update that moves the screening to another room.
C27_AvailableNotNegative ==
    /\ \A sid \in ShowingIds : Exists(sid) => available_tickets(sid) >= 0
    /\ \A i \in DOMAIN outbox :
           IsScreeningUpdate(outbox[i])
           => outbox[i].payload.available_tickets >= 0

\* C22: cancelling a pending or confirmed booking releases its seat
\* reservations and lowers the showing's bookings_count by the tickets it
\* held, so that a later request on the same showing succeeds: once a
\* booking of a showing is cancelled and no reservation is under way, the
\* counter admits a request whenever the confirmed bookings leave a ticket.
C22_CancelFreesTickets ==
    \A sid \in ShowingIds :
        (/\ Exists(sid)
         /\ \E b \in BookingsOf(sid) : b.status = "cancelled"
         /\ \A r \in ReqIds : pc[r] # "loaded")
        => /\ \A rs \in seat_reservations :
                  (\E b \in BookingsOf(sid) :
                       b.status = "cancelled" /\ b.id = rs.booking_id)
                  => rs.status = "available"
           /\ ConfirmedTickets(sid) < RoomCapacity(sid)
                  => showings[sid].bookings_count < RoomCapacity(sid)

\* C5: no seat of a showing is reported booked to two distinct booking
\* requests: once a request has obtained a (showing, seat) pair, no other
\* request obtains it.
C5_SeatHeldOnce ==
    \A i, j \in DOMAIN outbox :
        (/\ IsSeatUpdate(outbox[i]) /\ IsSeatUpdate(outbox[j])
         /\ outbox[i].payload.status = "booked"
         /\ outbox[j].payload.status = "booked"
         /\ outbox[i].payload.showingId = outbox[j].payload.showingId
         /\ outbox[i].payload.seatId = outbox[j].payload.seatId)
        => outbox[i].src = outbox[j].src

\* request m asks for a seat that an earlier request was reported to have
\* booked for the same showing
AsksForHeldSeat(m) ==
    \E i \in DOMAIN outbox :
        /\ IsSeatUpdate(outbox[i])
        /\ outbox[i].src < m
        /\ outbox[i].payload.status = "booked"
        /\ outbox[i].payload.showingId = inbox[m].showingId
        /\ outbox[i].payload.seatId \in Elems(inbox[m].seats)

\* C6: a booking/request for a seat already held for that showing is
\* answered with success = false and produces no seats/updates message.
C6_ConflictRejected ==
    \A m \in DOMAIN inbox :
        AsksForHeldSeat(m)
        => \A i \in DOMAIN outbox :
               outbox[i].src = m
               => /\ ~IsSeatUpdate(outbox[i])
                  /\ IsBookingResponse(outbox[i])
                         => outbox[i].payload.success = FALSE

\* C9: every published update stands for a committed change: a screening
\* update of reserve_ticket for a committed booking of that request, a
\* seats/updates or showing/{showingId}/seats message for a committed seat
\* reservation of that showing and seat.
C9_PublishAfterCommit ==
    \A i \in DOMAIN outbox :
        LET m == outbox[i]
        IN  /\ IsScreeningUpdate(m) => HasBooking(m.src)
            /\ IsSeatUpdate(m)
                   => \E sr \in seat_reservations :
                          /\ sr.showing_id = m.payload.showingId
                          /\ sr.seat_id = m.payload.seatId
            /\ IsShowingSeats(m)
                   => \E sr \in seat_reservations :
                          /\ sr.showing_id = m.topic[2]
                          /\ sr.seat_id = m.payload.seatId
====
